---------------------------- MODULE Spec2Model ----------------------------
(***************************************************************************)
(* czSignature v1.1: the signature pad component.                          *)
(*                                                                         *)
(* Numbers are fixed-point: lengths, widths and velocities are integers in *)
(* units of 1/Scale pixel (pixel per millisecond for velocities), ratios   *)
(* and pressures are integers in units of 1/Scale.  Times are integer      *)
(* milliseconds counted from the pointerdown of the gesture: the code only *)
(* ever subtracts the times of two points of one stroke.  An array is      *)
(* modelled by its contents; `shared` tells whether the array the caller   *)
(* holds and #allStrokes are one and the same array, so that two           *)
(* references to one array are told apart from two arrays with equal       *)
(* contents.                                                               *)
(***************************************************************************)
EXTENDS Integers, Sequences, FiniteSets, TLC

VARIABLES
    isDrawing,      \* #isDrawing
    currentStroke,  \* #currentStroke: sequence of points
    allStrokes,     \* #allStrokes: the strokes in the component's array
    drawing,        \* #drawing: the in-flight redraw flag
    options,        \* this.options
    callerOrigin,   \* where the caller got the array it holds: "none" (it
                    \* holds none), "toData", "parse" or "literal"
    shared,         \* the caller's array is the very array #allStrokes refers to
    callerData,     \* the strokes in the caller's array when it is another
                    \* array (empty otherwise)
    captured,       \* pointer ids the canvas holds pointer capture for
    rafPending,     \* number of requestAnimationFrame callbacks queued, not yet run
    rect,           \* canvas.getBoundingClientRect(): the size the page gives the canvas
    canvasWidth,    \* this.canvasWidth
    canvasHeight,   \* this.canvasHeight
    resizeTimeout,  \* #resizeTimeout: the handle setTimeout returned last (0: undefined)
    timers,         \* handles of the setTimeout tasks scheduled and not yet run
    listeners,      \* #listeners: event name -> sequence of callbacks
    registrations,  \* every on(eventName, callback) call so far, in call order
    attached,       \* the pointer and resize handlers are registered with the
                    \* canvas, the document and the window
    out             \* what the last handler did that its caller can observe

(* The canvas geometry, the resize timer and the listener registry *)
hostState == <<rect, canvasWidth, canvasHeight, resizeTimeout, timers,
               listeners, registrations, attached>>

vars == <<isDrawing, currentStroke, allStrokes, drawing, options,
          callerOrigin, shared, callerData, captured, rafPending, hostState, out>>

----------------------------------------------------------------------------
(* Bounds of the model *)

MaxStrokes == 2
MaxPoints == 2
MaxRaf == 2

(* Fixed-point unit *)
Scale == 1000

(* Default options, in fixed-point units *)
DefaultMinWidth == 500
DefaultMaxWidth == 2500
VelocityFilterWeight == 700
DotSize == 2000
MinDistance == 800
SmoothingRatio == 500
SmoothingFadePoints == 4
VelocitySlopeNum == 3
VelocitySlopeDen == 2
DefaultPressure == 500

(* The canvas rectangle reported by getBoundingClientRect *)
RectLeft == 0
RectTop == 0
RectWidth == 20000
RectHeight == 10000

(* Stand-in for JavaScript's Infinity: beyond every coordinate of the model *)
Infinity == 1000000000

----------------------------------------------------------------------------
(* Arithmetic helpers *)

Min(a, b) == IF a < b THEN a ELSE b
Max(a, b) == IF a > b THEN a ELSE b

RECURSIVE SqrtSearch(_, _, _)
SqrtSearch(n, lo, hi) ==
    IF lo >= hi THEN lo
    ELSE LET mid == (lo + hi + 1) \div 2
         IN  IF mid * mid <= n THEN SqrtSearch(n, mid, hi)
             ELSE SqrtSearch(n, lo, mid - 1)

(* Math.hypot, rounded down to the fixed-point grid *)
Hypot(dx, dy) ==
    LET adx == IF dx < 0 THEN -dx ELSE dx
        ady == IF dy < 0 THEN -dy ELSE dy
    IN  SqrtSearch(dx * dx + dy * dy, Max(adx, ady), adx + ady)

(* Math.hypot(dx, dy) >= d in the place of > d *)
HypotAtLeast(dx, dy, d) == d <= 0 \/ dx * dx + dy * dy >= d * d

(* Math.hypot(dx, dy) > d, decided exactly *)
HypotExceeds(dx, dy, d) == d < 0 \/ dx * dx + dy * dy > d * d

(* a || b on numbers: a unless a is falsy (0) *)
OrElse(a, b) == IF a # 0 THEN a ELSE b

----------------------------------------------------------------------------
(* Point Simplifier: #simplifyStroke *)

RECURSIVE FilterFrom(_, _, _)
(* The distance-filter loop from index i (1-based) on; the last kept point
   is the last element of kept. *)
FilterFrom(points, i, kept) ==
    IF i > Len(points) THEN kept
    ELSE LET lastPoint == kept[Len(kept)]
             p == points[i]
         IN  IF HypotExceeds(p.x - lastPoint.x, p.y - lastPoint.y, MinDistance)
             THEN FilterFrom(points, i + 1, Append(kept, p))
             ELSE FilterFrom(points, i + 1, kept)

distanceFilter(points) == FilterFrom(points, 2, <<points[1]>>)

(* The smoothed point without the fade at the ends of the stroke *)
SmoothedPointWithoutFade(simplifiedPoints, i) ==
    LET prev == simplifiedPoints[i]
        current == simplifiedPoints[i + 1]
        next == simplifiedPoints[i + 2]
    IN  [x |-> (current.x * (Scale - SmoothingRatio)
                + ((prev.x + next.x) \div 2) * SmoothingRatio) \div Scale,
         y |-> (current.y * (Scale - SmoothingRatio)
                + ((prev.y + next.y) \div 2) * SmoothingRatio) \div Scale,
         time |-> current.time, pressure |-> current.pressure]

(* The smoothed interior point of index i (0-based, as in the source) *)
SmoothedPoint(simplifiedPoints, i) ==
    LET n == Len(simplifiedPoints)
        prev == simplifiedPoints[i]
        current == simplifiedPoints[i + 1]
        next == simplifiedPoints[i + 2]
        fadeInRatio == Min(Scale, (i * Scale) \div SmoothingFadePoints)
        fadeOutRatio == Min(Scale, ((n - 2 - i) * Scale) \div SmoothingFadePoints)
        dynamicRatio == (SmoothingRatio * Min(fadeInRatio, fadeOutRatio)) \div Scale
        smoothedX == (current.x * (Scale - dynamicRatio)
                      + ((prev.x + next.x) \div 2) * dynamicRatio) \div Scale
        smoothedY == (current.y * (Scale - dynamicRatio)
                      + ((prev.y + next.y) \div 2) * dynamicRatio) \div Scale
    IN  [x |-> smoothedX, y |-> smoothedY, time |-> current.time,
         pressure |-> current.pressure]

simplifyStroke(points) ==
    IF Len(points) < 3 THEN points
    ELSE LET simplifiedPoints == distanceFilter(points)
             n == Len(simplifiedPoints)
         IN  IF n < 3 THEN simplifiedPoints
             ELSE [k \in 1..n |->
                     IF k = 1 \/ k = n THEN simplifiedPoints[k]
                     ELSE SmoothedPoint(simplifiedPoints, k - 1)]

----------------------------------------------------------------------------
(* Width Modulator: #calculateWidths *)

(* usePressure counting the pressures 0 and 1 as well *)
usePressureInclusive(points) ==
    /\ options.pressureSupport
    /\ \E k \in 1..Len(points) :
          points[k].pressure >= 0 /\ points[k].pressure <= Scale

usePressure(points) ==
    /\ options.pressureSupport
    /\ \E k \in 1..Len(points) :
          points[k].pressure > 0 /\ points[k].pressure < Scale

(* The pressure width measured from zero, not from minWidth *)
PressureWidthFromZero(p, minWidth, maxWidth) ==
    (maxWidth * p.pressure) \div Scale

PressureWidth(p, minWidth, maxWidth) ==
    minWidth + ((maxWidth - minWidth) * p.pressure) \div Scale

(* The instantaneous velocity falling back to 0 when no time has elapsed *)
VelocityZeroWithoutTime(points, i, lastVelocity) ==
    IF i > 1
    THEN LET distance == Hypot(points[i].x - points[i - 1].x,
                               points[i].y - points[i - 1].y)
             time == points[i].time - points[i - 1].time
         IN  IF time > 0 THEN distance \div time ELSE 0
    ELSE 0

(* The instantaneous velocity at point i (1-based) *)
Velocity(points, i, lastVelocity) ==
    IF i > 1
    THEN LET distance == Hypot(points[i].x - points[i - 1].x,
                               points[i].y - points[i - 1].y)
             time == points[i].time - points[i - 1].time
         IN  IF time > 0 THEN distance \div time ELSE lastVelocity
    ELSE 0

(* velocity * (1 - velocityFilterWeight) + lastVelocity * velocityFilterWeight:
   each product is rounded before the sum is taken *)
FilteredVelocity(velocity, lastVelocity) ==
    (velocity * (Scale - VelocityFilterWeight)) \div Scale
    + (lastVelocity * VelocityFilterWeight) \div Scale

(* The width without its lower clamp *)
VelocityWidthUnclamped(lastVelocity, minWidth, maxWidth) ==
    Min(maxWidth, maxWidth - (lastVelocity * VelocitySlopeNum) \div VelocitySlopeDen)

VelocityWidth(lastVelocity, minWidth, maxWidth) ==
    Max(minWidth,
        Min(maxWidth,
            maxWidth - (lastVelocity * VelocitySlopeNum) \div VelocitySlopeDen))

RECURSIVE VelocityWidthsFrom(_, _, _, _, _, _)
VelocityWidthsFrom(points, minWidth, maxWidth, i, lastVelocity, widths) ==
    IF i > Len(points) THEN widths
    ELSE LET v == FilteredVelocity(Velocity(points, i, lastVelocity), lastVelocity)
         IN  VelocityWidthsFrom(points, minWidth, maxWidth, i + 1, v,
                                Append(widths, VelocityWidth(v, minWidth, maxWidth)))

(* The values lastVelocity takes in velocity mode, one per point *)
RECURSIVE FilteredVelocitiesFrom(_, _, _, _)
FilteredVelocitiesFrom(points, i, lastVelocity, velocities) ==
    IF i > Len(points) THEN velocities
    ELSE LET v == FilteredVelocity(Velocity(points, i, lastVelocity), lastVelocity)
         IN  FilteredVelocitiesFrom(points, i + 1, v, Append(velocities, v))

calculateWidths(points, minWidth, maxWidth) ==
    IF usePressure(points)
    THEN [k \in 1..Len(points) |-> PressureWidth(points[k], minWidth, maxWidth)]
    ELSE VelocityWidthsFrom(points, minWidth, maxWidth, 1, 0, <<>>)

----------------------------------------------------------------------------
(* Centerline Renderer: #drawStroke, as the list of shapes it paints.  A
   shape is a disc (arc + fill) or a stroked segment ending at `to` with the
   given lineWidth; lineCap is 'round'. *)

Midpoint(p1, p2) == [x |-> (p1.x + p2.x) \div 2, y |-> (p1.y + p2.y) \div 2]

RECURSIVE QuadSegments(_, _, _, _, _)
(* the loop body of #drawStroke for index i (0-based), pen at `from` *)
QuadSegments(points, widths, i, from, acc) ==
    IF i >= Len(points) - 1 THEN acc
    ELSE LET p1 == points[i + 1]
             p2 == points[i + 2]
             mid == Midpoint(p1, p2)
             segmentWidth == (widths[i + 1] + widths[i + 2]) \div 2
         IN  QuadSegments(points, widths, i + 1, mid,
                 Append(acc, [fromX |-> from.x, fromY |-> from.y,
                              toX |-> mid.x, toY |-> mid.y,
                              lineWidth |-> segmentWidth]))

drawStroke(points, color, minWidth, maxWidth) ==
    IF Len(points) = 0 THEN <<>>
    ELSE IF Len(points) = 1
    THEN LET radius == OrElse(options.maxWidth, DotSize) \div 2
         IN  <<[fromX |-> points[1].x, fromY |-> points[1].y,
                toX |-> points[1].x, toY |-> points[1].y,
                lineWidth |-> 2 * radius]>>
    ELSE LET widths == calculateWidths(points, minWidth, maxWidth)
             n == Len(points)
             quads == QuadSegments(points, widths, 1,
                                   [x |-> points[1].x, y |-> points[1].y], <<>>)
             from == IF quads = <<>> THEN [x |-> points[1].x, y |-> points[1].y]
                     ELSE [x |-> quads[Len(quads)].toX, y |-> quads[Len(quads)].toY]
         IN  Append(quads, [fromX |-> from.x, fromY |-> from.y,
                            toX |-> points[n].x, toY |-> points[n].y,
                            lineWidth |-> widths[n]])

----------------------------------------------------------------------------
(* The stroke collection and the caller's array *)

isEmpty == Len(allStrokes) = 0

(* The strokes in the array the caller holds *)
CallerArray == IF shared THEN allStrokes ELSE callerData

(* Array.prototype.shift in the place of pop: removes the first element *)
Shift(arr) == SubSeq(arr, 2, Len(arr))

(* Array.prototype.pop *)
Pop(arr) == SubSeq(arr, 1, Len(arr) - 1)

(* Array.prototype.unshift in the place of push: inserts at the head *)
unshiftStroke(strokes, stroke) == <<stroke>> \o strokes

(* this.#allStrokes.push(newStroke) *)
pushStroke(strokes, stroke) == Append(strokes, stroke)

----------------------------------------------------------------------------
(* Bounding-Box Calculator: #calculateBoundingBox *)

NullBox == [null |-> TRUE]

RECURSIVE BoxOverPoints(_, _, _, _)
BoxOverPoints(points, widths, index, box) ==
    IF index > Len(points) THEN box
    ELSE LET point == points[index]
             halfWidth == widths[index] \div 2
         IN  BoxOverPoints(points, widths, index + 1,
                 [minX |-> Min(box.minX, point.x - halfWidth),
                  maxX |-> Max(box.maxX, point.x + halfWidth),
                  minY |-> Min(box.minY, point.y - halfWidth),
                  maxY |-> Max(box.maxY, point.y + halfWidth)])

RECURSIVE BoxOverStrokes(_, _, _)
BoxOverStrokes(strokes, k, box) ==
    IF k > Len(strokes) THEN box
    ELSE LET stroke == strokes[k]
             widths == calculateWidths(stroke.points, stroke.minWidth, stroke.maxWidth)
         IN  BoxOverStrokes(strokes, k + 1,
                            BoxOverPoints(stroke.points, widths, 1, box))

BoundingBoxOf(strokes) ==
    IF Len(strokes) = 0 THEN NullBox
    ELSE LET b == BoxOverStrokes(strokes, 1,
                      [minX |-> Infinity, minY |-> Infinity,
                       maxX |-> -Infinity, maxY |-> -Infinity])
         IN  [minX |-> b.minX, minY |-> b.minY, maxX |-> b.maxX, maxY |-> b.maxY,
              width |-> b.maxX - b.minX, height |-> b.maxY - b.minY]

calculateBoundingBox == BoundingBoxOf(allStrokes)

(* #redrawCanvas: everything painted for the stored strokes *)
RECURSIVE PaintedShapes(_, _)
PaintedShapes(strokes, k) ==
    IF k > Len(strokes) THEN <<>>
    ELSE drawStroke(strokes[k].points, strokes[k].color,
                    strokes[k].minWidth, strokes[k].maxWidth)
         \o PaintedShapes(strokes, k + 1)

----------------------------------------------------------------------------
(* Plain-data serialization of toData()'s result: JSON.stringify writes the
   properties of each record in insertion order as a flat text; JSON.parse
   reads them back by position. *)

RECURSIVE StringifyPoints(_, _)
StringifyPoints(points, k) ==
    IF k > Len(points) THEN <<>>
    ELSE <<points[k].x, points[k].y, points[k].time, points[k].pressure>>
         \o StringifyPoints(points, k + 1)

StringifyStroke(stroke) ==
    <<Len(stroke.points)>> \o StringifyPoints(stroke.points, 1)
    \o <<stroke.color, stroke.minWidth, stroke.maxWidth>>

RECURSIVE StringifyStrokes(_, _)
StringifyStrokes(strokes, k) ==
    IF k > Len(strokes) THEN <<>>
    ELSE StringifyStroke(strokes[k]) \o StringifyStrokes(strokes, k + 1)

JSONstringify(strokes) == <<Len(strokes)>> \o StringifyStrokes(strokes, 1)

PointFields == 4

ParsePoints(text, at, n) ==
    [k \in 1..n |->
        LET base == at + (k - 1) * PointFields
        IN  [x |-> text[base], y |-> text[base + 1],
             time |-> text[base + 2], pressure |-> text[base + 3]]]

RECURSIVE ParseStrokes(_, _, _)
ParseStrokes(text, at, count) ==
    IF count = 0 THEN <<>>
    ELSE LET n == text[at]
             after == at + 1 + n * PointFields
         IN  <<[points |-> ParsePoints(text, at + 1, n),
                color |-> text[after],
                minWidth |-> text[after + 1],
                maxWidth |-> text[after + 2]]>>
             \o ParseStrokes(text, after + 3, count - 1)

JSONparse(text) == ParseStrokes(text, 2, text[1])

----------------------------------------------------------------------------
(* Inputs *)

PointerIds == {1, 2}

(* Pointer events the browser delivers.  Pointer 1 is a mouse (it reports
   pressure 0), pointer 2 a pen held right of the canvas.  `elapsed` is the
   time since the previous sample of the gesture. *)
MouseDown ==
    [pointerId |-> 1, button |-> 0, clientX |-> 5000, clientY |-> 5000,
     pressure |-> 0, elapsed |-> 0]

MouseRightDown ==
    [pointerId |-> 1, button |-> 2, clientX |-> 5000, clientY |-> 5000,
     pressure |-> 0, elapsed |-> 0]

MouseMove ==
    [pointerId |-> 1, button |-> 0, clientX |-> 8000, clientY |-> 9000,
     pressure |-> 0, elapsed |-> 10]

PenDown ==
    [pointerId |-> 2, button |-> 0, clientX |-> 25000, clientY |-> 6000,
     pressure |-> 200, elapsed |-> 0]

PenMove ==
    [pointerId |-> 2, button |-> 0, clientX |-> 25000, clientY |-> 2000,
     pressure |-> 200, elapsed |-> 10]

(* Objects a caller passes to updateOptions *)
OptionPatches ==
    {[penColor |-> "#ff0000", maxWidth |-> 6000, pressureSupport |-> TRUE]}

(* What a caller passes to fromData: the array it holds, or something else *)
NotArrays == {[kind |-> "null"], [kind |-> "object"]}

TheArray == [kind |-> "array"]

IsArray(data) == data.kind = "array"

(* A stroke record a caller writes by hand *)
CallerStroke ==
    [points |-> <<[x |-> 5000, y |-> 5000, time |-> 0, pressure |-> 500]>>,
     color |-> "#0000ff", minWidth |-> DefaultMinWidth, maxWidth |-> DefaultMaxWidth]

----------------------------------------------------------------------------
(* What a handler lets its caller observe *)

(* #emit(eventName, data): the callbacks it calls, in call order *)
emit(event) ==
    IF event.name \in DOMAIN listeners
    THEN [k \in 1..Len(listeners[event.name]) |->
             [callback |-> listeners[event.name][k], event |-> event]]
    ELSE <<>>

(* The calls made by the #emit calls of one handler, in call order *)
RECURSIVE Delivered(_, _)
Delivered(emitted, k) ==
    IF k > Len(emitted) THEN <<>>
    ELSE emit(emitted[k]) \o Delivered(emitted, k + 1)

(* The history of the 'drawStart' and 'drawEnd' events is not recorded *)
Unobserved == "unobserved"

(* The last 'drawStart' or 'drawEnd' emitted so far, once the events from
   index k on have been emitted too; "none" before the first *)
RECURSIVE LastGestureEvent(_, _, _)
LastGestureEvent(last, emitted, k) ==
    IF k > Len(emitted) THEN last
    ELSE LastGestureEvent(IF last # Unobserved
                             /\ emitted[k].name \in {"drawStart", "drawEnd"}
                          THEN emitted[k].name ELSE last,
                          emitted, k + 1)

Handled(op, ret, emitted, redrawn, error, gestureEvent) ==
    [op |-> op, ret |-> ret, emitted |-> emitted, invoked |-> Delivered(emitted, 1),
     redrawn |-> redrawn, error |-> error, gestureEvent |-> gestureEvent]

Out(op, ret, emitted, redrawn, error) ==
    Handled(op, ret, emitted, redrawn, error,
            LastGestureEvent(out.gestureEvent, emitted, 1))

(* What the code has done before the first step of a specification *)
Loaded == Handled("load", "undefined", <<>>, FALSE, FALSE, Unobserved)

Quiet(op) == Out(op, "undefined", <<>>, FALSE, FALSE)

(* null, as the default of outputPenColor *)
Null == "null"

(* a ?? b *)
Coalesce(a, b) == IF a = Null THEN b ELSE a

(* _options, the fields the model varies *)
DefaultOptions ==
    [penColor |-> "#000000", minWidth |-> DefaultMinWidth,
     maxWidth |-> DefaultMaxWidth, pressureSupport |-> FALSE,
     trimOutput |-> FALSE, outputPenColor |-> Null]

(* { ...this.options, ...newOptions } *)
Merge(old, new) ==
    [k \in DOMAIN old |-> IF k \in DOMAIN new THEN new[k] ELSE old[k]]

(* Date.now() at a pointerdown, and at a later sample of the gesture *)
GestureStart == 0

DateNow(event) == currentStroke[Len(currentStroke)].time + event.elapsed

(* #getCoordinates; `time` is what Date.now() returns *)
getCoordinates(event, time) ==
    LET halfPenWidth == OrElse(options.maxWidth, DotSize) \div 2
        x == event.clientX - RectLeft
        y == event.clientY - RectTop
    IN  [x |-> Max(halfPenWidth, Min(x, canvasWidth - halfPenWidth)),
         y |-> Max(halfPenWidth, Min(y, canvasHeight - halfPenWidth)),
         time |-> time,
         pressure |-> IF event.pressure > 0 THEN event.pressure ELSE DefaultPressure]

----------------------------------------------------------------------------
(* State after the constructor: #init ends with clear() *)

(* #setupCanvas in #init, no resize yet, nothing registered *)
HostInit ==
    /\ rect = [width |-> RectWidth, height |-> RectHeight]
    /\ canvasWidth = RectWidth
    /\ canvasHeight = RectHeight
    /\ resizeTimeout = 0
    /\ timers = {}
    /\ listeners = <<>>
    /\ registrations = <<>>
    /\ attached = TRUE

Constructed(gestureEvent) ==
    /\ HostInit
    /\ isDrawing = FALSE
    /\ currentStroke = <<>>
    /\ allStrokes = <<>>
    /\ drawing = FALSE
    /\ options = DefaultOptions
    /\ callerOrigin = "none"
    /\ shared = FALSE
    /\ callerData = <<>>
    /\ captured = {}
    /\ rafPending = 0
    /\ out = Handled("clear", "undefined", <<[name |-> "clear"]>>, TRUE, FALSE,
                     gestureEvent)

Init == Constructed(Unobserved)

----------------------------------------------------------------------------
(* Public operations *)

(* clear(): #resetState, #redrawCanvas, emit 'clear'.  #resetState makes
   #allStrokes a new empty array; the caller keeps the array it holds. *)
Clear ==
    /\ isDrawing' = FALSE
    /\ currentStroke' = <<>>
    /\ allStrokes' = <<>>
    /\ drawing' = FALSE
    /\ shared' = FALSE
    /\ callerData' = CallerArray
    /\ out' = Out("clear", "undefined", <<[name |-> "clear"]>>, TRUE, FALSE)
    /\ UNCHANGED <<hostState, options, callerOrigin, captured, rafPending>>

(* undo() *)
Undo ==
    IF Len(allStrokes) > 0
    THEN /\ allStrokes' = Pop(allStrokes)
         /\ out' = Out("undo", "true",
                       <<[name |-> "undo", strokesLeft |-> Len(allStrokes) - 1]>>,
                       TRUE, FALSE)
         /\ UNCHANGED <<hostState, isDrawing, currentStroke, drawing, options,
                        callerOrigin, shared, callerData, captured, rafPending>>
    ELSE /\ out' = Out("undo", "false", <<>>, FALSE, FALSE)
         /\ UNCHANGED <<hostState, isDrawing, currentStroke, allStrokes, drawing, options,
                        callerOrigin, shared, callerData, captured, rafPending>>

(* updateOptions(newOptions) *)
UpdateOptions(newOptions) ==
    /\ options' = Merge(options, newOptions)
    /\ out' = Out("updateOptions", "undefined", <<>>, TRUE, FALSE)
    /\ UNCHANGED <<hostState, isDrawing, currentStroke, allStrokes, drawing,
                   callerOrigin, shared, callerData, captured, rafPending>>

(* toData(): a new array with the same elements; the caller keeps it *)
ToData ==
    /\ callerOrigin' = "toData"
    /\ shared' = FALSE
    /\ callerData' = allStrokes
    /\ out' = Out("toData", "array", <<>>, FALSE, FALSE)
    /\ UNCHANGED <<hostState, isDrawing, currentStroke, allStrokes, drawing, options,
                   captured, rafPending>>

(* fromData clearing before it looks at its argument *)
FromDataClearsFirst(data) ==
    /\ isDrawing' = FALSE
    /\ currentStroke' = <<>>
    /\ drawing' = FALSE
    /\ IF ~IsArray(data)
       THEN /\ allStrokes' = <<>>
            /\ shared' = FALSE
            /\ callerData' = CallerArray
            /\ out' = Out("fromData", "undefined", <<[name |-> "clear"]>>, TRUE, TRUE)
       ELSE /\ allStrokes' = CallerArray
            /\ shared' = TRUE
            /\ callerData' = <<>>
            /\ out' = Out("fromData", "undefined",
                          <<[name |-> "clear"],
                            [name |-> "load", strokeCount |-> Len(CallerArray)]>>,
                          TRUE, FALSE)
    /\ UNCHANGED <<hostState, options, callerOrigin, captured, rafPending>>

(* fromData clearing and never taking the loaded array *)
FromDataDropsData(data) ==
    IF ~IsArray(data)
    THEN /\ out' = Out("fromData", "undefined", <<>>, FALSE, TRUE)
         /\ UNCHANGED <<hostState, isDrawing, currentStroke, allStrokes, drawing, options,
                        callerOrigin, shared, callerData, captured, rafPending>>
    ELSE /\ isDrawing' = FALSE
         /\ currentStroke' = <<>>
         /\ drawing' = FALSE
         /\ allStrokes' = <<>>
         /\ shared' = FALSE
         /\ callerData' = CallerArray
         /\ out' = Out("fromData", "undefined",
                       <<[name |-> "clear"], [name |-> "load", strokeCount |-> 0]>>,
                       TRUE, FALSE)
         /\ UNCHANGED <<hostState, options, callerOrigin, captured, rafPending>>

(* fromData(data): data is the array the caller holds, or no array *)
FromData(data) ==
    IF ~IsArray(data)
    THEN /\ out' = Out("fromData", "undefined", <<>>, FALSE, TRUE)
         /\ UNCHANGED <<hostState, isDrawing, currentStroke, allStrokes, drawing, options,
                        callerOrigin, shared, callerData, captured, rafPending>>
    ELSE /\ isDrawing' = FALSE
         /\ currentStroke' = <<>>
         /\ drawing' = FALSE
         /\ allStrokes' = CallerArray
         /\ shared' = TRUE
         /\ callerData' = <<>>
         /\ out' = Out("fromData", "undefined",
                       <<[name |-> "clear"],
                         [name |-> "load", strokeCount |-> Len(CallerArray)]>>,
                       TRUE, FALSE)
         /\ UNCHANGED <<hostState, options, callerOrigin, captured, rafPending>>

----------------------------------------------------------------------------
(* Pointer handlers *)

(* #startDrawing, on 'pointerdown' at the canvas *)
startDrawing(event) ==
    IF event.button # 0
    THEN /\ out' = Quiet("pointerdown")
         /\ UNCHANGED <<hostState, isDrawing, currentStroke, allStrokes, drawing, options,
                        callerOrigin, shared, callerData, captured, rafPending>>
    ELSE /\ captured' = captured \cup {event.pointerId}
         /\ isDrawing' = TRUE
         /\ currentStroke' = <<getCoordinates(event, GestureStart)>>
         /\ out' = Out("pointerdown", "undefined",
                       <<[name |-> "drawStart", pointerId |-> event.pointerId]>>,
                       FALSE, FALSE)
         /\ UNCHANGED <<hostState, allStrokes, drawing, options, callerOrigin, shared,
                        callerData, rafPending>>

(* #draw, on 'pointermove' at the canvas *)
draw(event) ==
    IF ~isDrawing \/ event.pointerId \notin captured
    THEN /\ out' = Quiet("pointermove")
         /\ UNCHANGED <<hostState, isDrawing, currentStroke, allStrokes, drawing, options,
                        callerOrigin, shared, callerData, captured, rafPending>>
    ELSE /\ currentStroke' = Append(currentStroke, getCoordinates(event, DateNow(event)))
         /\ IF ~drawing
            THEN drawing' = TRUE /\ rafPending' = rafPending + 1
            ELSE UNCHANGED <<hostState, drawing, rafPending>>
         /\ out' = Quiet("pointermove")
         /\ UNCHANGED <<hostState, isDrawing, allStrokes, options, callerOrigin, shared,
                        callerData, captured>>

(* The stroke built with its two widths mixed up *)
newStrokeWidthsSwapped ==
    [points |-> IF Len(currentStroke) > 1 THEN simplifyStroke(currentStroke)
                ELSE currentStroke,
     color |-> options.penColor,
     minWidth |-> options.maxWidth,
     maxWidth |-> options.minWidth]

(* The stroke #stopDrawing builds from the gesture's points *)
newStroke ==
    [points |-> IF Len(currentStroke) > 1 THEN simplifyStroke(currentStroke)
                ELSE currentStroke,
     color |-> options.penColor,
     minWidth |-> options.minWidth,
     maxWidth |-> options.maxWidth]

(* #stopDrawing, on 'pointerup' and 'pointercancel' at the document; the
   browser drops the pointer's capture after either event *)
stopDrawing(event) ==
    IF ~isDrawing
    THEN /\ captured' = captured \ {event.pointerId}
         /\ out' = Quiet("pointerup")
         /\ UNCHANGED <<hostState, isDrawing, currentStroke, allStrokes, drawing, options,
                        callerOrigin, shared, callerData, rafPending>>
    ELSE /\ captured' = captured \ {event.pointerId}
         /\ isDrawing' = FALSE
         /\ IF Len(currentStroke) > 0
            THEN /\ allStrokes' = pushStroke(allStrokes, newStroke)
                 /\ out' = Out("pointerup", "undefined",
                               <<[name |-> "drawEnd", stroke |-> newStroke]>>,
                               TRUE, FALSE)
            ELSE /\ allStrokes' = allStrokes
                 /\ out' = Out("pointerup", "undefined", <<>>, TRUE, FALSE)
         /\ currentStroke' = <<>>
         /\ UNCHANGED <<hostState, drawing, options, callerOrigin, shared, callerData,
                        rafPending>>

(* The callback redrawing and leaving #drawing as it is *)
AnimationFrameKeepsFlag ==
    /\ rafPending > 0
    /\ rafPending' = rafPending - 1
    /\ out' = Out("animationFrame", "undefined", <<>>, TRUE, FALSE)
    /\ UNCHANGED <<hostState, isDrawing, currentStroke, allStrokes, drawing, options,
                   callerOrigin, shared, callerData, captured>>

(* The callback #draw hands to requestAnimationFrame *)
AnimationFrame ==
    /\ rafPending > 0
    /\ rafPending' = rafPending - 1
    /\ drawing' = FALSE
    /\ out' = Out("animationFrame", "undefined", <<>>, TRUE, FALSE)
    /\ UNCHANGED <<hostState, isDrawing, currentStroke, allStrokes, options,
                   callerOrigin, shared, callerData, captured>>

----------------------------------------------------------------------------
(* The environment: the browser calls a handler for as long as it is
   registered *)

PointerDown(event) ==
    /\ attached
    /\ event.button = 0 => Len(allStrokes) < MaxStrokes
    /\ startDrawing(event)

PointerMove(event) ==
    /\ attached
    /\ (isDrawing /\ event.pointerId \in captured) =>
          /\ Len(currentStroke) < MaxPoints
          /\ drawing \/ rafPending < MaxRaf
    /\ draw(event)

PointerUp(pointerId) ==
    /\ attached
    /\ isDrawing => Len(allStrokes) < MaxStrokes
    /\ stopDrawing([pointerId |-> pointerId])

(* The caller's own code: data = JSON.parse(JSON.stringify(data)), a new
   array *)
CallerParse ==
    /\ callerOrigin = "toData"
    /\ callerOrigin' = "parse"
    /\ shared' = FALSE
    /\ callerData' = JSONparse(JSONstringify(CallerArray))
    /\ out' = Quiet("callerParse")
    /\ UNCHANGED <<hostState, isDrawing, currentStroke, allStrokes, drawing, options,
                   captured, rafPending>>

(* What a push or a pop on the caller's array does to the two arrays *)
CallerWrites(contents) ==
    IF shared
    THEN allStrokes' = contents /\ callerData' = callerData
    ELSE callerData' = contents /\ allStrokes' = allStrokes

(* The caller adds an element to the array it holds *)
CallerPush ==
    /\ callerOrigin # "none"
    /\ Len(CallerArray) < MaxStrokes
    /\ CallerWrites(Append(CallerArray, CallerStroke))
    /\ out' = Quiet("callerPush")
    /\ UNCHANGED <<hostState, isDrawing, currentStroke, drawing, options,
                   callerOrigin, shared, captured, rafPending>>

(* The caller removes the last element of the array it holds *)
CallerPop ==
    /\ callerOrigin # "none"
    /\ Len(CallerArray) > 0
    /\ CallerWrites(Pop(CallerArray))
    /\ out' = Quiet("callerPop")
    /\ UNCHANGED <<hostState, isDrawing, currentStroke, drawing, options,
                   callerOrigin, shared, captured, rafPending>>

DataArgs == NotArrays \cup (IF callerOrigin = "none" THEN {} ELSE {TheArray})

(* Every operation, with one pointer *)
Next ==
    \/ Clear
    \/ Undo
    \/ \E newOptions \in OptionPatches : UpdateOptions(newOptions)
    \/ ToData
    \/ \E data \in DataArgs : FromData(data)
    \/ \E event \in {MouseDown, MouseRightDown} : PointerDown(event)
    \/ PointerMove(MouseMove)
    \/ PointerUp(1)
    \/ AnimationFrame
    \/ CallerParse
    \/ CallerPush
    \/ CallerPop

Spec == Init /\ [][Next]_vars

(* The component under two pointers, its caller keeping no array *)
NextPointers ==
    \/ Clear
    \/ Undo
    \/ \E newOptions \in OptionPatches : UpdateOptions(newOptions)
    \/ \E data \in NotArrays : FromData(data)
    \/ \E event \in {MouseDown, MouseRightDown, PenDown} : PointerDown(event)
    \/ \E event \in {MouseMove, PenMove} : PointerMove(event)
    \/ \E pointerId \in PointerIds : PointerUp(pointerId)
    \/ AnimationFrame

SpecPointers == Init /\ [][NextPointers]_vars

----------------------------------------------------------------------------
(* The Width Modulator on its own: the inputs are one stored stroke and the
   pressureSupport option; the step computes the stroke's widths. *)

MaxSamples == 3

SamplePoints ==
    [x : {0, 5000}, y : {0}, time : {0, 1, 10}, pressure : {0, 200, 1000}]

RECURSIVE SampleSequences(_)
SampleSequences(n) ==
    IF n = 0 THEN {<<>>}
    ELSE {Append(s, p) : s \in SampleSequences(n - 1), p \in SamplePoints}

SampleStrokes ==
    {[points |-> pts, color |-> "#000000", minWidth |-> w[1], maxWidth |-> w[2]] :
        pts \in UNION {SampleSequences(n) : n \in 1..MaxSamples},
        w \in {<<DefaultMinWidth, DefaultMaxWidth>>,
               <<DefaultMaxWidth, DefaultMinWidth>>,
               <<DotSize, DotSize>>}}

InitWidths ==
    /\ HostInit
    /\ isDrawing = FALSE
    /\ currentStroke = <<>>
    /\ allStrokes \in {<<s>> : s \in SampleStrokes}
    /\ drawing = FALSE
    /\ options \in {[DefaultOptions EXCEPT !.pressureSupport = b] : b \in BOOLEAN}
    /\ callerOrigin = "none"
    /\ shared = FALSE
    /\ callerData = <<>>
    /\ captured = {}
    /\ rafPending = 0
    /\ out = Loaded

(* #calculateWidths(stroke.points, stroke.minWidth, stroke.maxWidth), as
   toSVG and #calculateBoundingBox call it for a stored stroke *)
MeasureWidths ==
    /\ out.op # "calculateWidths"
    /\ out' = Out("calculateWidths",
                  calculateWidths(allStrokes[1].points, allStrokes[1].minWidth,
                                  allStrokes[1].maxWidth),
                  <<>>, FALSE, FALSE)
    /\ UNCHANGED <<hostState, isDrawing, currentStroke, allStrokes, drawing, options,
                   callerOrigin, shared, callerData, captured, rafPending>>

(* updateOptions({ pressureSupport: ... }) switching the option over *)
SwitchPressureSupport ==
    UpdateOptions([pressureSupport |-> ~options.pressureSupport])

NextWidths ==
    \/ MeasureWidths
    \/ SwitchPressureSupport

SpecWidths == InitWidths /\ [][NextWidths]_vars


(* Samples for the velocity filter: consecutive points with no time between
   them, after motion at velocities the filter does not represent exactly *)
VelocitySamples ==
    [x : {0, 5000, 12000}, y : {0}, time : {0, 3, 7}, pressure : {DefaultPressure}]

RECURSIVE VelocitySequences(_)
VelocitySequences(n) ==
    IF n = 0 THEN {<<>>}
    ELSE {Append(s, p) : s \in VelocitySequences(n - 1), p \in VelocitySamples}

InitVelocity ==
    /\ HostInit
    /\ isDrawing = FALSE
    /\ currentStroke = <<>>
    /\ allStrokes \in
          {<<[points |-> pts, color |-> "#000000", minWidth |-> w[1], maxWidth |-> w[2]]>> :
              pts \in UNION {VelocitySequences(n) : n \in 1..MaxSamples},
              w \in {<<DefaultMinWidth, DefaultMaxWidth>>,
                     <<DefaultMaxWidth, DefaultMinWidth>>}}
    /\ drawing = FALSE
    /\ options = DefaultOptions
    /\ callerOrigin = "none"
    /\ shared = FALSE
    /\ callerData = <<>>
    /\ captured = {}
    /\ rafPending = 0
    /\ out = Loaded

NextVelocity == MeasureWidths

SpecVelocity == InitVelocity /\ [][NextVelocity]_vars
----------------------------------------------------------------------------
(* Outline Path Builder and the exports: #generateSmoothSvgPathData, toSVG,
   toDataURL *)

TrimPadding == 16000
Dpi == 300
CssDpi == 96
BackgroundColor == "#ffffff"

(* Number.prototype.toFixed(2): the nearest multiple of 0.01 *)
toFixed2(v) == ((v * 100 + Scale \div 2) \div Scale) * (Scale \div 100)

(* The path data of one stroke.  A single point gives 'M x,y m -r,0
   a r,r 0 1,0 2r,0 a r,r 0 1,0 -2r,0': the commands are kept with their
   numbers.  Two or more points give the closed outline built from the points
   and the widths alone; it is kept as that pair.  No point gives ''. *)
generateSmoothSvgPathData(points, widths) ==
    IF Len(points) < 2
    THEN IF Len(points) = 1
         THEN LET r == OrElse(options.maxWidth, DotSize) \div 2
              IN  [M |-> [x |-> toFixed2(points[1].x), y |-> toFixed2(points[1].y)],
                   m |-> [dx |-> -r, dy |-> 0],
                   a1 |-> [rx |-> r, ry |-> r, dx |-> r * 2, dy |-> 0],
                   a2 |-> [rx |-> r, ry |-> r, dx |-> -(r * 2), dy |-> 0]]
         ELSE ""
    ELSE [outline |-> points, widths |-> widths]

(* The <path> elements toSVG writes for the strokes from index k on *)
RECURSIVE SvgPaths(_, _)
SvgPaths(strokes, k) ==
    IF k > Len(strokes) THEN <<>>
    ELSE LET stroke == strokes[k]
             finalPenColor == Coalesce(options.outputPenColor, stroke.color)
             widths == calculateWidths(stroke.points, stroke.minWidth, stroke.maxWidth)
             pathData == generateSmoothSvgPathData(stroke.points, widths)
         IN  (IF Len(stroke.points) = 0 THEN <<>>
              ELSE <<[d |-> pathData, fill |-> finalPenColor, stroke |-> "none"]>>)
             \o SvgPaths(strokes, k + 1)

(* The strokes toDataURL paints on the temporary canvas from index k on *)
RECURSIVE RasterStrokes(_, _)
RasterStrokes(strokes, k) ==
    IF k > Len(strokes) THEN <<>>
    ELSE LET stroke == strokes[k]
             finalPenColor == Coalesce(options.outputPenColor, stroke.color)
         IN  <<[color |-> finalPenColor,
                shapes |-> drawStroke(stroke.points, finalPenColor,
                                      stroke.minWidth, stroke.maxWidth)]>>
             \o RasterStrokes(strokes, k + 1)

(* toSVG without its test of isEmpty(): only the trimmed export, which finds
   no bounding box, still returns ''; the untrimmed one is a document with no
   path *)
ToSVGWithoutEmptyTest ==
    /\ out' = Out("toSVG",
                  IF isEmpty
                  THEN IF options.trimOutput THEN "" ELSE "<svg></svg>"
                  ELSE [width |-> canvasWidth, height |-> canvasHeight,
                        viewBoxX |-> 0, viewBoxY |-> 0,
                        background |-> BackgroundColor,
                        paths |-> SvgPaths(allStrokes, 1)],
                  <<>>, FALSE, FALSE)
    /\ UNCHANGED <<hostState, isDrawing, currentStroke, allStrokes, drawing, options,
                   callerOrigin, shared, callerData, captured, rafPending>>

(* toSVG() *)
ToSVG ==
    /\ out' = Out("toSVG",
                  IF isEmpty THEN ""
                  ELSE LET bbox == IF options.trimOutput THEN calculateBoundingBox
                                   ELSE [minX |-> 0, minY |-> 0,
                                         width |-> canvasWidth, height |-> canvasHeight]
                           pad == IF options.trimOutput THEN TrimPadding ELSE 0
                       IN  [width |-> bbox.width + pad * 2,
                            height |-> bbox.height + pad * 2,
                            viewBoxX |-> bbox.minX - pad,
                            viewBoxY |-> bbox.minY - pad,
                            background |-> BackgroundColor,
                            paths |-> SvgPaths(allStrokes, 1)],
                  <<>>, FALSE, FALSE)
    /\ UNCHANGED <<hostState, isDrawing, currentStroke, allStrokes, drawing, options,
                   callerOrigin, shared, callerData, captured, rafPending>>

(* toDataURL(format) *)
ToDataURL ==
    /\ out' = Out("toDataURL",
                  IF isEmpty THEN "data:,"
                  ELSE LET bbox == IF options.trimOutput THEN calculateBoundingBox
                                   ELSE [minX |-> 0, minY |-> 0,
                                         width |-> canvasWidth, height |-> canvasHeight]
                           pad == IF options.trimOutput THEN TrimPadding ELSE 0
                       IN  [width |-> ((bbox.width + pad * 2) * Dpi) \div CssDpi,
                            height |-> ((bbox.height + pad * 2) * Dpi) \div CssDpi,
                            translateX |-> pad - bbox.minX,
                            translateY |-> pad - bbox.minY,
                            background |-> BackgroundColor,
                            strokes |-> RasterStrokes(allStrokes, 1)],
                  <<>>, FALSE, FALSE)
    /\ UNCHANGED <<hostState, isDrawing, currentStroke, allStrokes, drawing, options,
                   callerOrigin, shared, callerData, captured, rafPending>>

(* Objects a caller passes to updateOptions before an export *)
ExportPatches ==
    {[trimOutput |-> TRUE], [outputPenColor |-> "#00ff00"]}

(* Drawing with one pointer, changes of the options, and the exports *)
NextExport ==
    \/ Clear
    \/ Undo
    \/ \E newOptions \in OptionPatches \cup ExportPatches : UpdateOptions(newOptions)
    \/ PointerDown(MouseDown)
    \/ PointerMove(MouseMove)
    \/ PointerUp(1)
    \/ AnimationFrame
    \/ ToSVG
    \/ ToDataURL

SpecExport == Init /\ [][NextExport]_vars

----------------------------------------------------------------------------
(* Resize handling: #setupResizeHandler *)

MaxResizes == 3

(* Sizes the page gives the canvas when the window is resized *)
RectSizes ==
    {[width |-> 12000, height |-> 6000], [width |-> 16000, height |-> 8000]}

(* clearTimeout cancelling nothing *)
clearNothing(handle) == timers

(* clearTimeout(handle): the tasks still scheduled *)
clearTimeout(handle) == timers \ {handle}

(* The handle setTimeout returns: one never handed out before.  Only the
   resize handler calls setTimeout, and #resizeTimeout is the last handle. *)
setTimeout == resizeTimeout + 1

(* boundResize, the window's 'resize' listener; the page has given the
   canvas the size newRect *)
Resize(newRect) ==
    /\ attached
    /\ resizeTimeout < MaxResizes
    /\ rect' = newRect
    /\ timers' = (IF resizeTimeout # 0 THEN clearTimeout(resizeTimeout) ELSE timers)
                 \cup {setTimeout}
    /\ resizeTimeout' = setTimeout
    /\ out' = Quiet("resizeEvent")
    /\ UNCHANGED <<canvasWidth, canvasHeight, listeners, registrations, attached,
                   isDrawing, currentStroke, allStrokes, drawing, options,
                   callerOrigin, shared, callerData, captured, rafPending>>

(* The task given to setTimeout, run after its delay: #setupCanvas and
   emit 'resize' *)
ResizeTask(handle) ==
    /\ handle \in timers
    /\ timers' = timers \ {handle}
    /\ canvasWidth' = rect.width
    /\ canvasHeight' = rect.height
    /\ out' = Out("resizeTask", "undefined", <<[name |-> "resize"]>>, TRUE, FALSE)
    /\ UNCHANGED <<rect, resizeTimeout, listeners, registrations, attached,
                   isDrawing, currentStroke, allStrokes, drawing, options,
                   callerOrigin, shared, callerData, captured, rafPending>>

(* Drawing with one pointer while the window is resized *)
NextResize ==
    \/ \E newRect \in RectSizes : Resize(newRect)
    \/ \E handle \in timers : ResizeTask(handle)
    \/ Undo
    \/ PointerDown(MouseDown)
    \/ PointerMove(MouseMove)
    \/ PointerUp(1)
    \/ AnimationFrame

SpecResize == Init /\ [][NextResize]_vars

----------------------------------------------------------------------------
(* The listener registry: on *)

MaxRegistrations == 3

(* Event names and callbacks a caller registers *)
EventNames == {"drawEnd", "clear"}

Callbacks == {"f", "g"}

(* unshift in the place of push *)
unshiftCallback(list, callback) == <<callback>> \o list

(* this.#listeners[eventName].push(callback) *)
pushCallback(list, callback) == Append(list, callback)

(* on(eventName, callback) *)
On(eventName, callback) ==
    /\ Len(registrations) < MaxRegistrations
    /\ listeners' =
          LET present == IF eventName \in DOMAIN listeners THEN listeners
                         ELSE (eventName :> <<>>) @@ listeners
          IN  [present EXCEPT ![eventName] = pushCallback(@, callback)]
    /\ registrations' =
          Append(registrations, [eventName |-> eventName, callback |-> callback])
    /\ out' = Quiet("on")
    /\ UNCHANGED <<rect, canvasWidth, canvasHeight, resizeTimeout, timers, attached,
                   isDrawing, currentStroke, allStrokes, drawing, options,
                   callerOrigin, shared, callerData, captured, rafPending>>

(* Taps with one pointer and public operations, callbacks being registered
   at any time *)
NextListeners ==
    \/ \E eventName \in EventNames, callback \in Callbacks : On(eventName, callback)
    \/ Clear
    \/ Undo
    \/ PointerDown(MouseDown)
    \/ PointerUp(1)

SpecListeners == Init /\ [][NextListeners]_vars

----------------------------------------------------------------------------
(* The Point Simplifier on its own: the input is the point sequence of a
   gesture; one step simplifies it, a second simplifies the result again. *)

MaxRawPoints == 4

(* Places of raw samples: some nearer to each other than minDistance, some
   exactly minDistance apart, some just beyond, some far *)
RawPlaces == [x : {0, 800, 810, 10000, 20000}, y : {0, 500}]

RECURSIVE RawSequences(_)
RawSequences(n) ==
    IF n = 0 THEN {<<>>}
    ELSE {Append(s, [x |-> place.x, y |-> place.y, time |-> 10 * (n - 1),
                     pressure |-> DefaultPressure]) :
             s \in RawSequences(n - 1), place \in RawPlaces}

InitSimplify ==
    /\ HostInit
    /\ isDrawing = TRUE
    /\ currentStroke \in UNION {RawSequences(n) : n \in 1..MaxRawPoints}
    /\ allStrokes = <<>>
    /\ drawing = FALSE
    /\ options = DefaultOptions
    /\ callerOrigin = "none"
    /\ shared = FALSE
    /\ callerData = <<>>
    /\ captured = {}
    /\ rafPending = 0
    /\ out = Loaded

(* What #simplifyStroke(points) computes: simplifiedPoints, the points that
   survived its distance filter (all of them when there are fewer than
   three), and the sequence it returns *)
Simplified(points) ==
    [filtered |-> IF Len(points) < 3 THEN points ELSE distanceFilter(points),
     points |-> simplifyStroke(points)]

(* #simplifyStroke(#currentStroke), as #stopDrawing calls it *)
SimplifyStroke ==
    /\ out.op = "load"
    /\ out' = Out("simplifyStroke", Simplified(currentStroke), <<>>, FALSE, FALSE)
    /\ UNCHANGED <<hostState, isDrawing, currentStroke, allStrokes, drawing, options,
                   callerOrigin, shared, callerData, captured, rafPending>>

(* #simplifyStroke applied to what it returned *)
Resimplify ==
    /\ out.op = "simplifyStroke"
    /\ currentStroke' = out.ret.points
    /\ out' = Out("resimplify", Simplified(out.ret.points), <<>>, FALSE, FALSE)
    /\ UNCHANGED <<hostState, isDrawing, allStrokes, drawing, options,
                   callerOrigin, shared, callerData, captured, rafPending>>

NextSimplify ==
    \/ SimplifyStroke
    \/ Resimplify

SpecSimplify == InitSimplify /\ [][NextSimplify]_vars


----------------------------------------------------------------------------
(* The component loading arrays its caller wrote by hand *)

(* A stroke record without a point *)
PointlessStroke ==
    [points |-> <<>>, color |-> "#0000ff",
     minWidth |-> DefaultMinWidth, maxWidth |-> DefaultMaxWidth]

(* Arrays a caller writes by hand: fromData tests Array.isArray and nothing
   else *)
CallerArrays ==
    {<<>>, <<CallerStroke>>, <<PointlessStroke>>, <<CallerStroke, PointlessStroke>>}

(* The caller's own code: data = [...], a new array *)
CallerBuilds(array) ==
    /\ callerOrigin' = "literal"
    /\ shared' = FALSE
    /\ callerData' = array
    /\ out' = Quiet("callerBuilds")
    /\ UNCHANGED <<hostState, isDrawing, currentStroke, allStrokes, drawing, options,
                   captured, rafPending>>

NextData ==
    \/ Clear
    \/ Undo
    \/ \E newOptions \in OptionPatches : UpdateOptions(newOptions)
    \/ \E array \in CallerArrays : CallerBuilds(array)
    \/ \E data \in DataArgs : FromData(data)
    \/ PointerDown(MouseDown)
    \/ PointerMove(MouseMove)
    \/ PointerUp(1)
    \/ AnimationFrame

SpecData == Init /\ [][NextData]_vars

----------------------------------------------------------------------------
(* destroy() *)

(* destroy(): #removeEventListeners, removeEventListener('resize'), emit
   'destroy'.  The task boundResize scheduled stays scheduled, and so does a
   requested animation frame. *)
Destroy ==
    /\ attached' = FALSE
    /\ out' = Out("destroy", "undefined", <<[name |-> "destroy"]>>, FALSE, FALSE)
    /\ UNCHANGED <<rect, canvasWidth, canvasHeight, resizeTimeout, timers,
                   listeners, registrations,
                   isDrawing, currentStroke, allStrokes, drawing, options,
                   callerOrigin, shared, callerData, captured, rafPending>>

(* Drawing with one pointer while the window is resized, destroy() being
   called at any time *)
NextDestroy ==
    \/ Destroy
    \/ \E newRect \in RectSizes : Resize(newRect)
    \/ \E handle \in timers : ResizeTask(handle)
    \/ PointerDown(MouseDown)
    \/ PointerMove(MouseMove)
    \/ PointerUp(1)
    \/ AnimationFrame

SpecDestroy == Init /\ [][NextDestroy]_vars

----------------------------------------------------------------------------
(* The stream of 'drawStart' and 'drawEnd' events *)

(* The component after construction, the two events being recorded from now *)
InitEvents == Constructed("none")

(* One pointer, which the browser reports down only when it is up, and the
   public operations *)
NextEvents ==
    \/ Clear
    \/ Undo
    \/ \E newOptions \in OptionPatches : UpdateOptions(newOptions)
    \/ \E data \in NotArrays : FromData(data)
    \/ MouseDown.pointerId \notin captured /\ PointerDown(MouseDown)
    \/ PointerMove(MouseMove)
    \/ PointerUp(1)
    \/ AnimationFrame

SpecEvents == InitEvents /\ [][NextEvents]_vars

----------------------------------------------------------------------------
(* The redraw loop under a browser that runs every requested animation-frame
   callback *)

NextFrames ==
    \/ Clear
    \/ Undo
    \/ PointerDown(MouseDown)
    \/ PointerMove(MouseMove)
    \/ PointerUp(1)
    \/ AnimationFrame

SpecFrames == Init /\ [][NextFrames]_vars /\ WF_vars(AnimationFrame)
----------------------------------------------------------------------------
(* Properties *)

(* The fields of the component other than the stroke collection *)
gestureState == <<isDrawing, currentStroke, drawing, options>>

(* C1: undo() on an empty collection returns false, emits nothing and
   changes nothing; on a non-empty collection it returns true and removes
   exactly the last stroke, every earlier stroke staying as it was, in its
   place. *)
UndoRemovesLastStroke ==
    [][out'.op = "undo" =>
         IF Len(allStrokes) = 0
         THEN /\ out'.ret = "false"
              /\ out'.emitted = <<>>
              /\ ~out'.redrawn
              /\ UNCHANGED <<allStrokes, gestureState, rafPending>>
         ELSE /\ out'.ret = "true"
              /\ Len(allStrokes') = Len(allStrokes) - 1
              /\ \A k \in 1..Len(allStrokes') : allStrokes'[k] = allStrokes[k]
              /\ UNCHANGED <<gestureState, rafPending>>]_vars

(* C1 witness: undo has removed the second of two different strokes *)
UndoneSecondStroke ==
    /\ out.op = "undo"
    /\ out.ret = "true"
    /\ Len(allStrokes) = 1
    /\ Len(allStrokes[1].points) = 2

(* C2: fromData with an argument that is no array reports the error and
   changes nothing: the strokes, isDrawing, currentStroke and the redraw flag
   stay as they were, and no event is emitted. *)
FromDataRejectsNonArray ==
    [][(\E data \in NotArrays : FromData(data)) =>
         /\ out'.error
         /\ out'.emitted = <<>>
         /\ UNCHANGED <<allStrokes, gestureState, shared, callerData>>]_vars

(* C2 witness: a non-array was rejected in the middle of a gesture, with a
   stroke stored *)
RejectedDuringGesture ==
    /\ out.op = "fromData"
    /\ out.error
    /\ isDrawing
    /\ Len(currentStroke) = 2
    /\ Len(allStrokes) > 0

(* C3: at most one redraw callback requested through requestAnimationFrame
   is pending at any time. *)
AtMostOneRedrawPending == rafPending <= 1

(* The pointer a sample came from: the mouse reports no pressure and its
   samples get the default pressure, the pen's samples carry its own *)
PointerOf(point) == IF point.pressure = DefaultPressure THEN 1 ELSE PenDown.pointerId

(* The pointer whose pointerdown started the gesture in progress *)
GestureOwner == PointerOf(currentStroke[1])

(* A pointerdown, pointermove or pointerup/pointercancel of pointer q *)
EventOf(q) ==
    \/ PointerUp(q)
    \/ \E event \in {MouseDown, MouseRightDown, PenDown} :
          event.pointerId = q /\ PointerDown(event)
    \/ \E event \in {MouseMove, PenMove} :
          event.pointerId = q /\ PointerMove(event)

(* C4: while the gesture of pointer P is active, the events of another
   pointer Q add no point to the current stroke, do not reset it and do not
   finalize it, and the stroke appended when the gesture ends holds samples
   of P only. *)
SecondaryPointersIgnored ==
    [][isDrawing =>
         /\ \A q \in PointerIds \ {GestureOwner} :
               EventOf(q) => UNCHANGED <<isDrawing, currentStroke, allStrokes>>
         /\ Len(allStrokes') = Len(allStrokes) + 1 =>
               \A k \in 1..Len(allStrokes'[Len(allStrokes')].points) :
                  PointerOf(allStrokes'[Len(allStrokes')].points[k]) = GestureOwner]_vars

(* C5: a terminal event of an active gesture appends exactly one stroke at
   the tail, made of the gesture's samples and carrying the penColor,
   minWidth and maxWidth options of that moment, and emits one 'drawEnd' with
   that stroke; with no gesture active it changes nothing and emits
   nothing. *)
GestureEndAppendsOneStroke ==
    [][out'.op = "pointerup" =>
         IF isDrawing
         THEN LET stroke == allStrokes'[Len(allStrokes')]
              IN  /\ Len(allStrokes') = Len(allStrokes) + 1
                  /\ \A k \in 1..Len(allStrokes) : allStrokes'[k] = allStrokes[k]
                  /\ stroke.color = options.penColor
                  /\ stroke.minWidth = options.minWidth
                  /\ stroke.maxWidth = options.maxWidth
                  /\ Len(stroke.points) >= 1
                  /\ stroke.points[1] = currentStroke[1]
                  /\ out'.emitted = <<[name |-> "drawEnd", stroke |-> stroke]>>
                  /\ ~isDrawing'
                  /\ currentStroke' = <<>>
         ELSE /\ out'.emitted = <<>>
              /\ ~out'.redrawn
              /\ UNCHANGED <<allStrokes, gestureState, rafPending>>]_vars

(* C5 witness: a gesture ended after the options were changed, and its
   stroke of two points follows another stroke *)
EndedGestureWithNewOptions ==
    /\ out.op = "pointerup"
    /\ Len(out.emitted) = 1
    /\ Len(allStrokes) = 2
    /\ allStrokes[2].color = "#ff0000"
    /\ allStrokes[1].color = "#000000"
    /\ Len(allStrokes[2].points) = 2

(* C6: every step of the component leaves the stroke collection as it is,
   appends one stroke at its tail (gesture end), removes its last stroke
   (undo), empties it (clear) or replaces it by the loaded sequence
   (fromData); the strokes that stay keep their contents and their places.
   The caller's own writes to an array it holds are not steps of the
   component. *)
CollectionChangesOnlyAtTail ==
    [][LET op == out'.op
           keepsFront(longer, shorter) ==
               /\ Len(longer) = Len(shorter) + 1
               /\ \A k \in 1..Len(shorter) : longer[k] = shorter[k]
       IN  CASE op = "pointerup" ->
                   allStrokes' = allStrokes \/ keepsFront(allStrokes', allStrokes)
             [] op = "undo" ->
                   allStrokes' = allStrokes \/ keepsFront(allStrokes, allStrokes')
             [] op = "clear" -> allStrokes' = <<>>
             [] op = "fromData" ->
                   allStrokes' = allStrokes \/ allStrokes' = CallerArray
             [] op \in {"callerPush", "callerPop", "callerParse"} -> TRUE
             [] OTHER -> allStrokes' = allStrokes]_vars

(* C6 witness: a gesture has ended with a stroke already stored *)
AppendedBehindAnotherStroke ==
    /\ out.op = "pointerup"
    /\ Len(out.emitted) = 1
    /\ Len(allStrokes) = 2
    /\ allStrokes[1] # allStrokes[2]

(* C7: toData() returns a new sequence with the collection's strokes in
   order and changes no state of the component; no later operation of the
   component (gesture end, undo, clear, fromData) changes the returned
   sequence, and adding or removing elements of the returned sequence does
   not change the component's collection. *)
ToDataResultIsIndependent ==
    [][/\ out'.op = "toData" =>
             /\ CallerArray' = allStrokes
             /\ UNCHANGED <<allStrokes, gestureState, rafPending>>
       /\ (callerOrigin = "toData"
           /\ out'.op \in {"pointerup", "undo", "clear", "fromData"}) =>
             CallerArray' = CallerArray
       /\ (callerOrigin = "toData" /\ out'.op \in {"callerPush", "callerPop"}) =>
             allStrokes' = allStrokes]_vars

(* C8: fromData(toData()), directly or through JSON, gives back the same
   strokes in the same order: toData hands the caller the collection's
   contents, JSON.parse(JSON.stringify(data)) keeps them and what is computed
   from them, and fromData makes them the collection and leaves the options
   alone, so that when the caller's array still equals the collection the
   widths, the painted shapes and the bounding box of the loaded strokes
   equal those of the strokes before the load. *)
RoundTripKeepsStrokes ==
    [][/\ out'.op = "toData" => CallerArray' = allStrokes /\ allStrokes' = allStrokes
       /\ out'.op = "callerParse" =>
             /\ CallerArray' = CallerArray
             /\ BoundingBoxOf(CallerArray') = BoundingBoxOf(CallerArray)
             /\ PaintedShapes(CallerArray', 1) = PaintedShapes(CallerArray, 1)
       /\ (out'.op = "fromData" /\ ~out'.error) =>
             /\ allStrokes' = CallerArray
             /\ options' = options
             /\ CallerArray = allStrokes =>
                   /\ Len(allStrokes') = Len(allStrokes)
                   /\ BoundingBoxOf(allStrokes') = BoundingBoxOf(allStrokes)
                   /\ PaintedShapes(allStrokes', 1) = PaintedShapes(allStrokes, 1)
                   /\ \A k \in 1..Len(allStrokes) :
                         calculateWidths(allStrokes'[k].points, allStrokes'[k].minWidth,
                                         allStrokes'[k].maxWidth)
                         = calculateWidths(allStrokes[k].points, allStrokes[k].minWidth,
                                           allStrokes[k].maxWidth)]_vars

(* C8 witness: two drawn strokes, one of two points, loaded back from the
   array that JSON.parse produced *)
LoadedBackThroughJSON ==
    /\ out.op = "fromData"
    /\ ~out.error
    /\ callerOrigin = "parse"
    /\ Len(allStrokes) = 2
    /\ Len(allStrokes[2].points) = 2
    /\ allStrokes[2].color = "#ff0000"

(* C9: for n >= 1 points with pressures in [0, 1], in pressure mode and in
   velocity mode, calculateWidths returns exactly n widths and each lies
   between the lesser and the greater of minWidth and maxWidth. *)
WidthsBetweenTheTwoLimits ==
    LET stroke == allStrokes[1]
        lo == Min(stroke.minWidth, stroke.maxWidth)
        hi == Max(stroke.minWidth, stroke.maxWidth)
    IN  out.op = "calculateWidths" =>
           /\ Len(out.ret) = Len(stroke.points)
           /\ \A k \in 1..Len(out.ret) : lo <= out.ret[k] /\ out.ret[k] <= hi

(* C9 witness: pressure mode with maxWidth < minWidth and a width strictly
   between the two *)
ReversedLimitsInPressureMode ==
    /\ out.op = "calculateWidths"
    /\ Len(out.ret) = MaxSamples
    /\ usePressure(allStrokes[1].points)
    /\ allStrokes[1].maxWidth < allStrokes[1].minWidth
    /\ \E k \in 1..Len(out.ret) :
          allStrokes[1].maxWidth < out.ret[k] /\ out.ret[k] < allStrokes[1].minWidth

(* C9 as stated: exactly n widths, each in [minWidth, maxWidth], also when
   maxWidth < minWidth *)
WidthsInMinMaxInterval ==
    out.op = "calculateWidths" =>
       /\ Len(out.ret) = Len(allStrokes[1].points)
       /\ \A k \in 1..Len(out.ret) :
             allStrokes[1].minWidth <= out.ret[k] /\ out.ret[k] <= allStrokes[1].maxWidth

(* C10: the bounding box is null exactly when the collection is empty;
   otherwise it is the tightest box over x -+ w/2, y -+ w/2 of every point
   of every stroke, w being the width the renderer paints the point with (the
   dot's diameter for a single point, the Width Modulator's output
   otherwise), with width and height >= 0. *)
BoxCoversRenderedInk ==
    LET box == calculateBoundingBox
        renderedWidths(stroke) ==
            IF Len(stroke.points) = 1
            THEN <<drawStroke(stroke.points, stroke.color,
                              stroke.minWidth, stroke.maxWidth)[1].lineWidth>>
            ELSE calculateWidths(stroke.points, stroke.minWidth, stroke.maxWidth)
        ink == UNION {{[x |-> allStrokes[k].points[i].x,
                        y |-> allStrokes[k].points[i].y,
                        half |-> renderedWidths(allStrokes[k])[i] \div 2] :
                          i \in 1..Len(allStrokes[k].points)} :
                      k \in 1..Len(allStrokes)}
        least(v, S) == v \in S /\ \A u \in S : v <= u
        greatest(v, S) == v \in S /\ \A u \in S : u <= v
    IN  IF isEmpty THEN box = NullBox
        ELSE /\ box # NullBox
             /\ least(box.minX, {e.x - e.half : e \in ink})
             /\ least(box.minY, {e.y - e.half : e \in ink})
             /\ greatest(box.maxX, {e.x + e.half : e \in ink})
             /\ greatest(box.maxY, {e.y + e.half : e \in ink})
             /\ box.width = box.maxX - box.minX /\ box.width >= 0
             /\ box.height = box.maxY - box.minY /\ box.height >= 0

(* C11: for a single-point stroke at (x, y) the path toSVG writes is a full
   circle centred on (x, y) whose radius r is widths[0] / 2, half the
   stroke's own maxWidth, so that the path's box is [x-r, x+r] x [y-r, y+r],
   whatever updateOptions calls were made since the stroke was created. *)
SinglePointPathIsStrokeCircle ==
    (out.op = "toSVG" /\ ~isEmpty) =>
       \A k \in 1..Len(allStrokes) :
          Len(allStrokes[k].points) = 1 =>
             LET stroke == allStrokes[k]
                 point == stroke.points[1]
                 widths == calculateWidths(stroke.points, stroke.minWidth, stroke.maxWidth)
                 r == widths[1] \div 2
                 d == out.ret.paths[k].d
                 startX == d.M.x + d.m.dx
                 startY == d.M.y + d.m.dy
             IN  /\ widths[1] = stroke.maxWidth
                 \* two half circles of one radius, there and back
                 /\ d.a1.rx = d.a1.ry /\ d.a2.rx = d.a1.rx /\ d.a2.ry = d.a1.rx
                 /\ d.a1.dx = 2 * d.a1.rx /\ d.a1.dy = 0
                 /\ d.a2.dx = -d.a1.dx /\ d.a2.dy = 0
                 \* centred on the point, of radius r
                 /\ startX + d.a1.rx = point.x /\ startY = point.y
                 /\ d.a1.rx = r
                 \* the box of the path
                 /\ startX = point.x - r /\ startX + d.a1.dx = point.x + r
                 /\ startY - d.a1.ry = point.y - r /\ startY + d.a1.ry = point.y + r

(* C12: with an empty stroke collection toSVG() returns '' and toDataURL()
   returns 'data:,', with trimOutput set or not; the export reports no
   error, emits nothing and changes no state. *)
EmptyExportsGivePlaceholders ==
    [][(out'.op \in {"toSVG", "toDataURL"} /\ isEmpty) =>
          /\ out'.ret = IF out'.op = "toSVG" THEN "" ELSE "data:,"
          /\ ~out'.error
          /\ out'.emitted = <<>>
          /\ ~out'.redrawn
          /\ UNCHANGED <<allStrokes, gestureState, rafPending, hostState,
                         captured>>]_vars

(* C12 witness: toSVG() was called with trimOutput set, nothing drawn and a
   gesture in progress *)
EmptyTrimmedExport ==
    /\ out.op = "toSVG"
    /\ isEmpty
    /\ options.trimOutput
    /\ isDrawing

(* C13: every resize event cancels the pending delayed task, if any, and
   schedules a new one, and recomputes nothing itself; at most one task is
   pending at any time; the task, when it runs, recomputes the canvas
   geometry from the size of the last event, emits one 'resize' and leaves no
   task pending.  A burst of events thus causes one recompute and one
   'resize', after its last event. *)
ResizeIsDebounced ==
    [][/\ Cardinality(timers') <= 1
       /\ out'.op = "resizeEvent" =>
             /\ timers' = {resizeTimeout'}
             /\ resizeTimeout' \notin timers
             /\ out'.emitted = <<>>
             /\ ~out'.redrawn
             /\ UNCHANGED <<canvasWidth, canvasHeight>>
       /\ out'.op = "resizeTask" =>
             /\ timers = {resizeTimeout}
             /\ timers' = {}
             /\ out'.emitted = <<[name |-> "resize"]>>
             /\ canvasWidth' = rect.width /\ canvasHeight' = rect.height
             /\ rect' = rect]_vars

(* C13 witness: the second resize event of a burst has replaced the task of
   the first, and no geometry was recomputed yet *)
SecondResizeOfBurst ==
    /\ out.op = "resizeEvent"
    /\ resizeTimeout = 2
    /\ timers = {2}
    /\ canvasWidth = RectWidth
    /\ rect.width # RectWidth

(* C14: the callbacks an emitted event invokes are those registered through
   on() for its name, once per registration and in registration order; a
   callback registered only for another name is not invoked. *)
DeliveryFollowsRegistration ==
    LET RECURSIVE expected(_)
        expected(k) ==
            IF k > Len(out.emitted) THEN <<>>
            ELSE LET event == out.emitted[k]
                     made == SelectSeq(registrations,
                                       LAMBDA r : r.eventName = event.name)
                 IN  [i \in 1..Len(made) |->
                         [callback |-> made[i].callback, event |-> event]]
                     \o expected(k + 1)
    IN  out.invoked = expected(1)

(* C14 witness: 'drawEnd' was delivered to g and then to f, in the order of
   their registration, and not to the callback registered for 'clear' *)
DrawEndDeliveredInOrder ==
    /\ out.op = "pointerup"
    /\ Len(out.invoked) = 2
    /\ out.invoked[1].callback = "g"
    /\ out.invoked[2].callback = "f"
    /\ \E k \in 1..Len(registrations) : registrations[k].eventName = "clear"

(* C15: in toSVG() and toDataURL() every exported stroke is coloured with
   the live penColor option when outputPenColor is null and with
   outputPenColor otherwise; the export changes neither the stored strokes
   nor the options. *)
ExportUsesLivePenColor ==
    [][(out'.op \in {"toSVG", "toDataURL"} /\ ~isEmpty) =>
          LET finalPenColor == IF options.outputPenColor = Null
                               THEN options.penColor
                               ELSE options.outputPenColor
          IN  /\ out'.op = "toSVG" =>
                    /\ Len(out'.ret.paths) = Len(allStrokes)
                    /\ \A k \in 1..Len(out'.ret.paths) :
                          out'.ret.paths[k].fill = finalPenColor
              /\ out'.op = "toDataURL" =>
                    /\ Len(out'.ret.strokes) = Len(allStrokes)
                    /\ \A k \in 1..Len(out'.ret.strokes) :
                          out'.ret.strokes[k].color = finalPenColor
              /\ UNCHANGED <<allStrokes, options>>]_vars

(* C16: for a stroke with minWidth = maxWidth every width calculateWidths
   returns equals minWidth, whatever the points, their times and their
   pressures, in pressure mode and in velocity mode. *)
EqualLimitsGiveConstantWidth ==
    (out.op = "calculateWidths" /\ allStrokes[1].minWidth = allStrokes[1].maxWidth) =>
       /\ Len(out.ret) = Len(allStrokes[1].points)
       /\ \A k \in 1..Len(out.ret) : out.ret[k] = allStrokes[1].minWidth

(* C16 witness: pressure mode over three points of differing pressures, the
   two limits equal *)
ConstantWidthUnderPressure ==
    /\ out.op = "calculateWidths"
    /\ allStrokes[1].minWidth = allStrokes[1].maxWidth
    /\ Len(out.ret) = MaxSamples
    /\ usePressure(allStrokes[1].points)
    /\ allStrokes[1].points[1].pressure # allStrokes[1].points[2].pressure
    /\ allStrokes[1].points[1].x # allStrokes[1].points[2].x

(* C17: simplifying the simplifier's own output again, with the same
   options, loses no point: the distance filter of the second pass drops
   none of the points of the first pass, and the second pass returns at
   least as many points as it was given. *)
ResimplifyingLosesNoPoint ==
    out.op = "resimplify" =>
       /\ Len(out.ret.filtered) = Len(currentStroke)
       /\ Len(out.ret.points) >= Len(currentStroke)

(* C18: for three or more points the distance filter keeps the first point
   and keeps a later point exactly when its Euclidean distance from the most
   recently kept point is strictly greater than minDistance; the kept
   points are thus a subsequence of the input in input order, at least one,
   and consecutive kept points are more than minDistance apart. *)
FilterKeepsFarPointsOnly ==
    (out.op = "simplifyStroke" /\ Len(currentStroke) >= 3) =>
       LET points == currentStroke
           kept == out.ret.filtered
           n == Len(points)
           far(i, j) ==
               (points[i].x - points[j].x) * (points[i].x - points[j].x)
               + (points[i].y - points[j].y) * (points[i].y - points[j].y)
               > MinDistance * MinDistance
           lastKeptBefore(K, i) ==
               CHOOSE j \in K : j < i /\ \A h \in K : h < i => h <= j
           follows(K) ==
               /\ 1 \in K
               /\ \A i \in 2..n : i \in K <=> far(i, lastKeptBefore(K, i))
           indices(K) == SelectSeq([i \in 1..n |-> i], LAMBDA i : i \in K)
       IN  /\ \E K \in SUBSET (1..n) :
                /\ follows(K)
                /\ Len(kept) = Cardinality(K)
                /\ \A k \in 1..Len(kept) : kept[k] = points[indices(K)[k]]
           /\ Len(kept) >= 1
           /\ kept[1] = points[1]
           /\ \A k \in 1..(Len(kept) - 1) :
                 (kept[k + 1].x - kept[k].x) * (kept[k + 1].x - kept[k].x)
                 + (kept[k + 1].y - kept[k].y) * (kept[k + 1].y - kept[k].y)
                 > MinDistance * MinDistance

(* C18 witness: of four points the filter dropped the one exactly
   minDistance from the first and the one nearer than that, and kept the
   first and a far one *)
FilterDroppedNearPoints ==
    /\ out.op = "simplifyStroke"
    /\ Len(currentStroke) = 4
    /\ currentStroke[1].x = 0 /\ currentStroke[1].y = 0
    /\ currentStroke[2].x = 800 /\ currentStroke[2].y = 0
    /\ currentStroke[3].x = 0 /\ currentStroke[3].y = 500
    /\ currentStroke[4].x = 810 /\ currentStroke[4].y = 0
    /\ Len(out.ret.filtered) = 2
    /\ out.ret.filtered[2] = currentStroke[4]

(* C19: smoothing moves no endpoint and drops no point: the output of
   simplifyStroke has as many points as survived the distance filter, its
   first and last points have exactly the coordinates of the first and last
   survivors, and when exactly three points survive every output position
   equals the filtered one. *)
SmoothingKeepsEndpoints ==
    out.op = "simplifyStroke" =>
       LET kept == out.ret.filtered
           result == out.ret.points
           n == Len(kept)
       IN  /\ Len(result) = n
           /\ n >= 1
           /\ result[1].x = kept[1].x /\ result[1].y = kept[1].y
           /\ result[n].x = kept[n].x /\ result[n].y = kept[n].y
           /\ n = 3 => \A k \in 1..n :
                          result[k].x = kept[k].x /\ result[k].y = kept[k].y

(* C19 witness: (0,0), (10,0), (20,0) survive with a fourth point dropped in
   between, and come out where they were *)
ThreeSurvivorsUnmoved ==
    /\ out.op = "simplifyStroke"
    /\ Len(currentStroke) = 4
    /\ Len(out.ret.filtered) = 3
    /\ out.ret.points[1].x = 0 /\ out.ret.points[1].y = 0
    /\ out.ret.points[2].x = 10000 /\ out.ret.points[2].y = 0
    /\ out.ret.points[3].x = 20000 /\ out.ret.points[3].y = 0

(* C20: calculateWidths is in pressure mode exactly when pressureSupport is
   enabled and some point of the sequence has a pressure strictly between 0
   and 1, decided at each call from the option as it then is: in pressure
   mode each width is minWidth + (maxWidth - minWidth) * pressure; otherwise,
   also when every pressure is exactly 0 or 1, the widths are the
   velocity-derived ones, which no pressure influences. *)
PressureModeDecidedPerCall ==
    out.op = "calculateWidths" =>
       LET stroke == allStrokes[1]
           points == stroke.points
           someTruePressure ==
               \E k \in 1..Len(points) :
                  0 < points[k].pressure /\ points[k].pressure < Scale
           withoutPressure ==
               [k \in 1..Len(points) |-> [points[k] EXCEPT !.pressure = 0]]
       IN  IF options.pressureSupport /\ someTruePressure
           THEN /\ Len(out.ret) = Len(points)
                /\ \A k \in 1..Len(points) :
                      out.ret[k] = stroke.minWidth
                                   + ((stroke.maxWidth - stroke.minWidth)
                                      * points[k].pressure) \div Scale
           ELSE out.ret = VelocityWidthsFrom(withoutPressure, stroke.minWidth,
                                             stroke.maxWidth, 1, 0, <<>>)

(* C20 witness: pressureSupport is enabled, the pressures are 0 and 1 only,
   and the widths follow the velocity: the fast second point is thinner than
   the first *)
ExtremePressuresUseVelocity ==
    /\ out.op = "calculateWidths"
    /\ options.pressureSupport
    /\ Len(out.ret) = MaxSamples
    /\ allStrokes[1].points[1].pressure = 0
    /\ allStrokes[1].points[2].pressure = Scale
    /\ allStrokes[1].points[3].pressure = Scale
    /\ allStrokes[1].minWidth < allStrokes[1].maxWidth
    /\ out.ret[1] = allStrokes[1].maxWidth
    /\ out.ret[2] < out.ret[1]

(* C21: in velocity mode, when no time has elapsed between two consecutive
   points, the instantaneous velocity is the previous filtered velocity; the
   filtered velocity of the later point is that value weighted with itself,
   which is the earlier one up to the rounding of the two products, and the
   widths of the two points differ by no more than that rounding allows; the
   width is a number between the lesser and the greater of minWidth and
   maxWidth. *)
ZeroTimeKeepsVelocityUpToRounding ==
    out.op = "calculateWidths" =>
       LET stroke == allStrokes[1]
           points == stroke.points
           velocities == FilteredVelocitiesFrom(points, 1, 0, <<>>)
           lo == Min(stroke.minWidth, stroke.maxWidth)
           hi == Max(stroke.minWidth, stroke.maxWidth)
       IN  \A k \in 2..Len(points) :
              points[k].time = points[k - 1].time =>
                 /\ Velocity(points, k, velocities[k - 1]) = velocities[k - 1]
                 /\ velocities[k] - velocities[k - 1] \in -1..1
                 /\ out.ret[k] - out.ret[k - 1] \in -2..2
                 /\ out.ret[k] \in Int
                 /\ lo <= out.ret[k] /\ out.ret[k] <= hi

(* C21 witness: the third point comes at the time of the second, which was
   reached at a velocity that thins the line *)
ZeroTimeAfterMotion ==
    /\ out.op = "calculateWidths"
    /\ Len(out.ret) = MaxSamples
    /\ allStrokes[1].points[3].time = allStrokes[1].points[2].time
    /\ allStrokes[1].points[3].x # allStrokes[1].points[2].x
    /\ allStrokes[1].minWidth < out.ret[2]
    /\ out.ret[2] < allStrokes[1].maxWidth
    /\ out.ret[3] # out.ret[2]

(* C21 as stated: the filtered velocity and the width of the later point
   equal those of the earlier point, and the width is within the two limits
   of the clamp *)
ZeroTimeKeepsVelocityAndWidth ==
    out.op = "calculateWidths" =>
       LET stroke == allStrokes[1]
           points == stroke.points
           velocities == FilteredVelocitiesFrom(points, 1, 0, <<>>)
           lo == Min(stroke.minWidth, stroke.maxWidth)
           hi == Max(stroke.minWidth, stroke.maxWidth)
       IN  \A k \in 2..Len(points) :
              points[k].time = points[k - 1].time =>
                 /\ velocities[k] = velocities[k - 1]
                 /\ out.ret[k] = out.ret[k - 1]
                 /\ lo <= out.ret[k] /\ out.ret[k] <= hi

(* C22: after any sequence of pointer events and public operations (clear,
   undo, updateOptions, fromData with any array) every stroke of the stroke
   collection has at least one point. *)
EveryStrokeHasAPoint ==
    \A k \in 1..Len(allStrokes) : Len(allStrokes[k].points) >= 1

(* C23: the stroke collection is owned by the component alone: when the
   caller holds an array of its own making (here the one JSON.parse gave it),
   loaded with fromData or not, finalizing a gesture and undo do not change
   the caller's array, and adding or removing elements of the caller's array
   does not change the component's collection. *)
ComponentOwnsItsCollection ==
    [][/\ (callerOrigin = "parse" /\ out'.op \in {"pointerup", "undo"}) =>
             CallerArray' = CallerArray
       /\ (callerOrigin = "parse" /\ out'.op \in {"callerPush", "callerPop"}) =>
             allStrokes' = allStrokes]_vars

(* C24: after destroy() has emitted 'destroy' the component reacts to
   nothing: no 'resize', 'drawStart' or 'drawEnd' is emitted, the canvas
   geometry is not recomputed, also when a resize event came shortly before
   destroy(), and the stroke collection does not change. *)
NoReactionAfterDestroy ==
    [][~attached =>
          /\ \A k \in 1..Len(out'.emitted) :
                out'.emitted[k].name \notin {"resize", "drawStart", "drawEnd"}
          /\ UNCHANGED <<canvasWidth, canvasHeight, allStrokes>>]_vars

(* C25: in the stream of emitted events 'drawStart' and 'drawEnd' strictly
   alternate, beginning with 'drawStart': a 'drawStart' is emitted only when
   the last of the two was a 'drawEnd' or there was none, and a 'drawEnd'
   only when the last of the two was a 'drawStart'. *)
DrawStartAndDrawEndAlternate ==
    [][\A k \in 1..Len(out'.emitted) :
          /\ out'.emitted[k].name = "drawStart" =>
                LastGestureEvent(out.gestureEvent, SubSeq(out'.emitted, 1, k - 1), 1)
                   \in {"none", "drawEnd"}
          /\ out'.emitted[k].name = "drawEnd" =>
                LastGestureEvent(out.gestureEvent, SubSeq(out'.emitted, 1, k - 1), 1)
                   = "drawStart"]_vars

(* C26: when the browser runs every requested animation-frame callback, the
   in-flight redraw flag, once set, is eventually cleared; every pointer-move
   accepted during a gesture (the state after it: a pointermove was handled
   and the gesture goes on) is eventually followed by a redraw of the canvas;
   and the flag is never set with no redraw callback pending. *)
RedrawFlagIsEventuallyCleared ==
    /\ [](drawing => rafPending > 0)
    /\ drawing ~> ~drawing
    /\ (out.op = "pointermove" /\ isDrawing) ~> out.redrawn

(* C26 witness: a requested callback has run during a gesture, after an
   accepted pointer-move: it redrew the canvas and cleared the flag *)
FrameRanDuringGesture ==
    /\ out.op = "animationFrame"
    /\ out.redrawn
    /\ ~drawing
    /\ rafPending = 0
    /\ isDrawing
    /\ Len(currentStroke) >= 2

============================================================================
